---- MODULE Spec2Model ----
(***************************************************************************)
(* Model of the APS / VIKTOR "list viewables" application:                 *)
(*   src/aps_helpers.py  - the remote API client and the hierarchy walker  *)
(*   src/app.py          - the memoized catalog and the option providers   *)
(*                                                                         *)
(* Strings that the code inspects character by character (display names,   *)
(* view names) are sequences of one-character strings.  Identifiers of     *)
(* hubs, projects, folders and items are positive integers; 0 is None.     *)
(* A call's outcome is a record: exc is the exception that left the call    *)
(* ("none" when it returned), kind is the type of the returned value.      *)
(***************************************************************************)
EXTENDS Integers, Sequences, FiniteSets, TLC

VARIABLES remote, cache, result

vars == <<remote, cache, result>>

-----------------------------------------------------------------------------
(* Bounds of the explored inputs *)

MaxFolders == 2
MaxItems == 2
MaxCache == 2

(* None, as an identifier *)
NoneId == 0

HubIds == {1, 2}
ProjectIds == {1, 2}
FolderIds == 1..MaxFolders
ItemIds == 1..MaxItems

-----------------------------------------------------------------------------
(* Python string operations *)

AsciiUpper == <<"A","B","C","D","E","F","G","H","I","J","K","L","M",
                "N","O","P","Q","R","S","T","U","V","W","X","Y","Z">>
AsciiLower == <<"a","b","c","d","e","f","g","h","i","j","k","l","m",
                "n","o","p","q","r","s","t","u","v","w","x","y","z">>

UpperToLower ==
    [c \in {AsciiUpper[i] : i \in 1..Len(AsciiUpper)} |->
        AsciiLower[CHOOSE i \in 1..Len(AsciiUpper) : AsciiUpper[i] = c]]

lower_char(c) == IF c \in DOMAIN UpperToLower THEN UpperToLower[c] ELSE c

lower(s) == [i \in 1..Len(s) |-> lower_char(s[i])]

endswith(s, suffix) ==
    /\ Len(suffix) <= Len(s)
    /\ SubSeq(s, Len(s) - Len(suffix) + 1, Len(s)) = suffix

startswith(s, prefix) ==
    /\ Len(prefix) <= Len(s)
    /\ SubSeq(s, 1, Len(prefix)) = prefix

supported_extensions ==
    << <<".","r","v","t">>,
       <<".","d","w","g">>,
       <<".","i","f","c">>,
       <<".","s","t","e","p">>,
       <<".","s","t","p">>,
       <<".","i","a","m">>,
       <<".","i","p","t">> >>

(* the filter without the lower-casing of line 222 *)
is_supported_case_sensitive(display_name) ==
    \E k \in 1..Len(supported_extensions) :
        endswith(display_name, supported_extensions[k])

is_supported(display_name) ==
    \E k \in 1..Len(supported_extensions) :
        endswith(lower(display_name), supported_extensions[k])

-----------------------------------------------------------------------------
(* Python dict[str, dict[str, str]] as a function  name -> [urn |-> ...] *)

EmptyDict == [n \in {} |-> [urn |-> ""]]

(* dict.update that keeps the existing value of a key *)
dict_update_keep_existing(a, b) ==
    [n \in (DOMAIN a) \cup (DOMAIN b) |-> IF n \in DOMAIN a THEN a[n] ELSE b[n]]

dict_update(a, b) ==
    [n \in (DOMAIN a) \cup (DOMAIN b) |-> IF n \in DOMAIN b THEN b[n] ELSE a[n]]

dict_set(a, k, v) ==
    [n \in (DOMAIN a) \cup {k} |-> IF n = k THEN v ELSE a[n]]

(* outcome of a call *)
Returned(kind, val, reqs) == [exc |-> "none", kind |-> kind, val |-> val, reqs |-> reqs]
Raised(exc, reqs) == [exc |-> exc, kind |-> "raised", val |-> EmptyDict, reqs |-> reqs]

(* truth value of a returned dict-or-None *)
truthy(ret) == ret.kind = "dict" /\ DOMAIN ret.val # {}

Req(ep, id) == [ep |-> ep, id |-> id]

-----------------------------------------------------------------------------
(* Remote API client *)

get_hubs(r) ==
    IF r.hubsStatus = "ok"
    THEN [exc |-> "none", data |-> r.hubs, reqs |-> <<Req("hubs", NoneId)>>]
    ELSE [exc |-> "HTTPError", data |-> <<>>, reqs |-> <<Req("hubs", NoneId)>>]

get_projects(r, hub_id) ==
    IF hub_id \in HubIds /\ r.projectsStatus[hub_id] = "ok"
    THEN [exc |-> "none", data |-> r.projects[hub_id], reqs |-> <<Req("projects", hub_id)>>]
    ELSE [exc |-> "HTTPError", data |-> <<>>, reqs |-> <<Req("projects", hub_id)>>]

get_top_folders(r, hub_id, project_id) ==
    IF r.topStatus[project_id] = "ok"
    THEN [exc |-> "none", data |-> r.topFolders[project_id],
          reqs |-> <<Req("topFolders", project_id)>>]
    ELSE [exc |-> "HTTPError", data |-> <<>>, reqs |-> <<Req("topFolders", project_id)>>]

get_folder_contents(r, project_id, folder_id) ==
    IF r.folderStatus[folder_id] = "ok"
    THEN [exc |-> "none", data |-> r.contents[folder_id],
          reqs |-> <<Req("contents", folder_id)>>]
    ELSE [exc |-> "HTTPError", data |-> <<>>, reqs |-> <<Req("contents", folder_id)>>]

get_item_versions(r, project_id, item_id) ==
    IF r.versionsStatus[item_id] = "ok"
    THEN [exc |-> "none", data |-> r.versions[item_id],
          reqs |-> <<Req("versions", item_id)>>]
    ELSE [exc |-> "HTTPError", data |-> <<>>, reqs |-> <<Req("versions", item_id)>>]

-----------------------------------------------------------------------------
(* Hierarchy walker.  A step of a loop is a record: exc is the exception the  *)
(* step raised ("none" when it completed), cat the catalog accumulated so      *)
(* far, reqs the requests issued so far.                                      *)

(* F(v), with v evaluated once *)
Bind(v, F(_)) == CHOOSE y \in {F(x) : x \in {v}} : TRUE

Step(exc, cat, reqs) == [exc |-> exc, cat |-> cat, reqs |-> reqs]

RECURSIVE get_all_cad_from_folder(_, _, _)
RECURSIVE folder_loop(_, _, _, _, _)

(* lines 211-243: one content entry of type "items" *)
process_item(r, project_id, content, acc) ==
    IF is_supported(content.displayName)
    THEN Bind(get_item_versions(r, project_id, content.id), LAMBDA versions :
            IF versions.exc # "none"
            THEN Step(versions.exc, acc.cat, acc.reqs \o versions.reqs)
            ELSE IF versions.data # <<>>
            THEN IF "id" \in DOMAIN versions.data[1]
                 THEN Step("none",
                           dict_set(acc.cat, content.displayName,
                                    [urn |-> versions.data[1].id]),
                           acc.reqs \o versions.reqs)
                 ELSE Step("KeyError", acc.cat, acc.reqs \o versions.reqs)
            ELSE Step("none", acc.cat, acc.reqs \o versions.reqs))
    ELSE Step("none", acc.cat, acc.reqs)

(* lines 203-209: one content entry of type "folders" *)
process_subfolder(r, project_id, content, acc) ==
    Bind(get_all_cad_from_folder(r, project_id, content.id), LAMBDA sub_viewables :
        IF sub_viewables.exc # "none"
        THEN Step(sub_viewables.exc, acc.cat, acc.reqs \o sub_viewables.reqs)
        ELSE IF truthy(sub_viewables)
        THEN Step("none", dict_update(acc.cat, sub_viewables.val),
                  acc.reqs \o sub_viewables.reqs)
        ELSE Step("none", acc.cat, acc.reqs \o sub_viewables.reqs))

(* lines 196-243: the body of the try block for one content entry *)
process_content(r, project_id, content, acc) ==
    IF ~content.hasAttributes
    THEN Step("AttributeError", acc.cat, acc.reqs)
    ELSE IF content.type = "folders"
    THEN process_subfolder(r, project_id, content, acc)
    ELSE IF content.type = "items"
    THEN process_item(r, project_id, content, acc)
    ELSE Step("none", acc.cat, acc.reqs)

(* line 245: the exceptions the per-entry handler catches *)
CaughtPerItem == {"HTTPError", "AttributeError"}

(* lines 195-256: the loop over contents.data, from entry i on *)
folder_loop(r, project_id, data, i, acc) ==
    IF i > Len(data)
    THEN Returned("dict", acc.cat, acc.reqs)
    ELSE Bind(process_content(r, project_id, data[i], acc), LAMBDA step :
            IF step.exc = "none" \/ step.exc \in CaughtPerItem
            THEN folder_loop(r, project_id, data, i + 1, step)
            ELSE Raised(step.exc, step.reqs))

(* the listing failure propagated instead of caught *)
on_folder_error_reraise(reqs) == Raised("HTTPError", reqs)

(* the listing failure answered with None *)
on_folder_error_none(reqs) == Returned("None", EmptyDict, reqs)

(* lines 188-190: the value returned when the folder's listing fails *)
on_folder_error(reqs) == Returned("dict", EmptyDict, reqs)

(* lines 181-256 *)
get_all_cad_from_folder(r, project_id, folder_id) ==
    Bind(get_folder_contents(r, project_id, folder_id), LAMBDA contents :
        IF contents.exc = "HTTPError"
        THEN on_folder_error(contents.reqs)
        ELSE IF contents.data = <<>>
        THEN Returned("dict", EmptyDict, contents.reqs)
        ELSE folder_loop(r, project_id, contents.data, 1,
                         Step("none", EmptyDict, contents.reqs)))

RECURSIVE top_folder_loop(_, _, _, _, _)
(* lines 150-159: the loop over top_folders.data, from folder j on *)
top_folder_loop(r, project_id, folders, j, acc) ==
    IF j > Len(folders)
    THEN acc
    ELSE Bind(get_all_cad_from_folder(r, project_id, folders[j]), LAMBDA viewables :
            IF viewables.exc # "none"
            THEN Step(viewables.exc, acc.cat, acc.reqs \o viewables.reqs)
            ELSE Bind(Step("none",
                           IF truthy(viewables)
                           THEN dict_update(acc.cat, viewables.val)
                           ELSE acc.cat,
                           acc.reqs \o viewables.reqs),
                      LAMBDA merged :
                          top_folder_loop(r, project_id, folders, j + 1, merged)))

RECURSIVE project_loop(_, _, _, _, _)
(* lines 143-159: the loop over projects.data, from project k on *)
project_loop(r, hub_id, projects, k, acc) ==
    IF k > Len(projects)
    THEN acc
    ELSE Bind(get_top_folders(r, hub_id, projects[k]), LAMBDA top_folders :
            IF top_folders.exc # "none"
            THEN Step(top_folders.exc, acc.cat, acc.reqs \o top_folders.reqs)
            ELSE Bind(top_folder_loop(r, projects[k], top_folders.data, 1,
                                      Step("none", acc.cat, acc.reqs \o top_folders.reqs)),
                      LAMBDA done :
                          IF done.exc # "none"
                          THEN done
                          ELSE project_loop(r, hub_id, projects, k + 1, done)))

(* lines 139-159 *)
process_hub(r, hub_id, acc) ==
    Bind(get_projects(r, hub_id), LAMBDA projects :
        IF projects.exc # "none"
        THEN Step(projects.exc, acc.cat, acc.reqs \o projects.reqs)
        ELSE project_loop(r, hub_id, projects.data, 1,
                          Step("none", acc.cat, acc.reqs \o projects.reqs)))

RECURSIVE hub_loop(_, _, _, _)
(* lines 172-178: the loop over hubs.data, from hub h on *)
hub_loop(r, hubs, h, acc) ==
    IF h > Len(hubs)
    THEN Returned("dict", acc.cat, acc.reqs)
    ELSE Bind(process_hub(r, hubs[h].id, acc), LAMBDA done :
            IF done.exc # "none"
            THEN Raised(done.exc, done.reqs)
            ELSE hub_loop(r, hubs, h + 1, done))

(* lines 124-178 *)
get_all_cad_file_from_hub(r, hub_id) ==
    IF hub_id # NoneId
    THEN Bind(process_hub(r, hub_id, Step("none", EmptyDict, <<>>)), LAMBDA done :
            IF done.exc # "none"
            THEN Raised(done.exc, done.reqs)
            ELSE Returned("dict", done.cat, done.reqs))
    ELSE Bind(get_hubs(r), LAMBDA hubs :
            IF hubs.exc # "none"
            THEN Raised(hubs.exc, hubs.reqs)
            ELSE IF hubs.data = <<>>
            THEN Returned("dict", EmptyDict, hubs.reqs)
            ELSE hub_loop(r, hubs.data, 1, Step("none", EmptyDict, hubs.reqs)))

-----------------------------------------------------------------------------
(* src/app.py: hub lookup, the memoized catalog, the option providers *)

(* lines 108-113 *)
get_hub_names(r) ==
    Bind(get_hubs(r), LAMBDA hubs :
        IF hubs.exc # "none"
        THEN Raised(hubs.exc, hubs.reqs)
        ELSE Returned("list", [k \in 1..Len(hubs.data) |-> hubs.data[k].name], hubs.reqs))

(* lines 116-123: the id of the first hub of that name, else None *)
get_hub_id_by_name(r, hub_name) ==
    Bind(get_hubs(r), LAMBDA hubs :
        IF hubs.exc # "none"
        THEN [exc |-> hubs.exc, id |-> NoneId, reqs |-> hubs.reqs]
        ELSE IF \E k \in 1..Len(hubs.data) : hubs.data[k].name = hub_name
        THEN [exc |-> "none",
              id |-> hubs.data[CHOOSE k \in 1..Len(hubs.data) :
                                  /\ hubs.data[k].name = hub_name
                                  /\ \A j \in 1..(k - 1) : hubs.data[j].name # hub_name].id,
              reqs |-> hubs.reqs]
        ELSE [exc |-> "none", id |-> NoneId, reqs |-> hubs.reqs])

(* line 82: get_all_cad_file_from_hub(token=token, hub_id=hub_id) or {} *)
catalog_or_empty(r, hub) ==
    Bind(get_all_cad_file_from_hub(r, hub.id), LAMBDA walk :
        IF walk.exc # "none"
        THEN Raised(walk.exc, hub.reqs \o walk.reqs)
        ELSE IF truthy(walk)
        THEN Returned("dict", walk.val, hub.reqs \o walk.reqs)
        ELSE Returned("dict", EmptyDict, hub.reqs \o walk.reqs))

(* lines 74-83: the body of get_viewable_files_dict, without the decorator *)
viewable_files_dict_body(r, params) ==
    IF params.hubs = ""
    THEN Returned("dict", EmptyDict, <<>>)
    ELSE Bind(get_hub_id_by_name(r, params.hubs), LAMBDA hub :
            IF hub.exc # "none"
            THEN Raised(hub.exc, hub.reqs)
            ELSE catalog_or_empty(r, hub))

(* the key under which a memoized call is stored: all of its arguments *)
memo_key(params) == params

memo_hit(c, params) == \E k \in 1..Len(c) : c[k].key = memo_key(params)

memo_value(c, params) == c[CHOOSE k \in 1..Len(c) : c[k].key = memo_key(params)].val

(* the decorator without effect: every call runs the body *)
get_viewable_files_dict_unmemoized(r, c, params) ==
    Bind(viewable_files_dict_body(r, params), LAMBDA ret :
        [ret |-> ret,
         cache |-> IF ret.exc = "none" /\ ~memo_hit(c, params)
                   THEN Append(c, [key |-> memo_key(params), val |-> ret.val])
                   ELSE c])

(* lines 73-83: get_viewable_files_dict under @vkt.memoize; a call that       *)
(* returns is stored, a call that raises is not                              *)
get_viewable_files_dict(r, c, params) ==
    IF memo_hit(c, params)
    THEN [ret |-> Returned("dict", memo_value(c, params), <<>>), cache |-> c]
    ELSE Bind(viewable_files_dict_body(r, params), LAMBDA ret :
            [ret |-> ret,
             cache |-> IF ret.exc = "none"
                       THEN Append(c, [key |-> memo_key(params), val |-> ret.val])
                       ELSE c])

(* lines 85-89 *)
get_hub_list(r) ==
    Bind(get_hub_names(r), LAMBDA hub_names :
        IF hub_names.exc # "none"
        THEN hub_names
        ELSE IF hub_names.val # <<>>
        THEN hub_names
        ELSE Returned("list", <<"No hubs found">>, hub_names.reqs))

(* list(d.keys()); the order of the keys is not modelled *)
keys_list(d) ==
    CHOOSE s \in [1..Cardinality(DOMAIN d) -> DOMAIN d] : {s[i] : i \in DOMAIN s} = DOMAIN d

(* lines 91-98 *)
get_viewable_files_names(r, c, params) ==
    IF params.hubs = ""
    THEN [ret |-> Returned("list", <<"Select a hub first!">>, <<>>), cache |-> c]
    ELSE Bind(get_viewable_files_dict(r, c, params), LAMBDA d :
            IF d.ret.exc # "none"
            THEN d
            ELSE IF DOMAIN d.ret.val # {}
            THEN [ret |-> Returned("list", keys_list(d.ret.val), d.ret.reqs),
                  cache |-> d.cache]
            ELSE [ret |-> Returned("list", <<"No viewable files in the hub">>, d.ret.reqs),
                  cache |-> d.cache])

(* lines 28-38: the manifest request *)
get_manifest(r, urn) ==
    IF r.manifestStatus = "ok"
    THEN [exc |-> "none", manifest |-> r.manifest, reqs |-> <<Req("manifest", NoneId)>>]
    ELSE [exc |-> "HTTPError", manifest |-> [status |-> "failed"],
          reqs |-> <<Req("manifest", NoneId)>>]

SheetPrefix == <<"S", "h", "e", "e", "t", ":">>

(* node.get(field) of a text field; None and "" are both false *)
get_text(node, field) == IF field \in DOMAIN node THEN node[field] ELSE <<>>

(* node.get(field) of a type, role, outputType or guid; None is "" *)
get_word(node, field) == IF field \in DOMAIN node THEN node[field] ELSE ""

(* node.get("children", []) *)
get_children(node) == IF "children" \in DOMAIN node THEN node.children ELSE <<>>

(* lines 55-60: position of the first child of type "view", 0 when there is none *)
first_view(children) ==
    IF \E k \in 1..Len(children) : get_word(children[k], "type") = "view"
    THEN CHOOSE k \in 1..Len(children) :
            /\ get_word(children[k], "type") = "view"
            /\ \A j \in 1..(k - 1) : get_word(children[j], "type") # "view"
    ELSE 0

(* line 58: child_node.get("name").startswith("Sheet:"); None has no startswith *)
sheet_name_check(child_node) ==
    IF "name" \in DOMAIN child_node
    THEN [exc |-> "none", sheet |-> startswith(child_node.name, SheetPrefix)]
    ELSE [exc |-> "AttributeError", sheet |-> FALSE]

(* lines 50-65: the option of a geometry container whose first view is child_node *)
view_option(geometry_node, child_node) ==
    LET check == sheet_name_check(child_node)
        view_guid == get_word(child_node, "guid")
        view_role == get_word(geometry_node, "role")
        view_name == IF check.sheet THEN child_node.name
                     ELSE get_text(geometry_node, "name")
        label_prefix == IF view_role = "3d" THEN "[3D]" ELSE "[2D]"
    IN  IF check.exc # "none"
        THEN [exc |-> check.exc, options |-> <<>>]
        ELSE IF view_name # <<>> /\ view_guid # ""
        THEN [exc |-> "none",
              options |-> << [label |-> <<label_prefix, view_name>>, value |-> view_guid] >>]
        ELSE [exc |-> "none", options |-> <<>>]

(* lines 49-65: the options one child of a derivative contributes *)
geometry_options(geometry_node) ==
    IF get_word(geometry_node, "type") = "geometry"
       /\ get_word(geometry_node, "role") \in {"3d", "2d"}
    THEN Bind(first_view(get_children(geometry_node)), LAMBDA v :
            IF v = 0
            THEN [exc |-> "none", options |-> <<>>]
            ELSE view_option(geometry_node, get_children(geometry_node)[v]))
    ELSE [exc |-> "none", options |-> <<>>]

RECURSIVE options_loop(_, _, _)
(* lines 45-65: the loop over a derivative's children, from child k on *)
options_loop(nodes, k, options) ==
    IF k > Len(nodes)
    THEN [exc |-> "none", options |-> options]
    ELSE Bind(geometry_options(nodes[k]), LAMBDA one :
            IF one.exc # "none"
            THEN [exc |-> one.exc, options |-> options]
            ELSE Bind(options \o one.options, LAMBDA more :
                    options_loop(nodes, k + 1, more)))

RECURSIVE derivatives_loop(_, _, _)
(* lines 42-65: the loop over manifest["derivatives"], from derivative d on *)
derivatives_loop(derivatives, d, options) ==
    IF d > Len(derivatives)
    THEN [exc |-> "none", options |-> options]
    ELSE IF get_word(derivatives[d], "outputType") \in {"svf", "svf2"}
    THEN Bind(options_loop(get_children(derivatives[d]), 1, options), LAMBDA done :
            IF done.exc # "none"
            THEN done
            ELSE derivatives_loop(derivatives, d + 1, done.options))
    ELSE derivatives_loop(derivatives, d + 1, options)

(* lines 40-65 *)
extract_views(manifest) ==
    derivatives_loop(IF "derivatives" \in DOMAIN manifest THEN manifest.derivatives ELSE <<>>,
                     1, <<>>)

(* lines 28-71: the manifest request and the options made of its views *)
manifest_options(r, d, urn) ==
    Bind(get_manifest(r, urn), LAMBDA m :
        IF m.exc # "none"
        THEN [ret |-> Returned("list",
                               << [label |-> <<"Error fetching manifest">>, value |-> ""] >>,
                               d.ret.reqs \o m.reqs),
              cache |-> d.cache]
        ELSE Bind(extract_views(m.manifest), LAMBDA views :
                IF views.exc # "none"
                THEN [ret |-> Raised(views.exc, d.ret.reqs \o m.reqs), cache |-> d.cache]
                ELSE IF views.options = <<>>
                THEN [ret |-> Returned("list",
                                 << [label |-> <<"No 3D or 2D views found in manifest">>,
                                     value |-> ""] >>,
                                 d.ret.reqs \o m.reqs),
                      cache |-> d.cache]
                ELSE [ret |-> Returned("list", views.options, d.ret.reqs \o m.reqs),
                      cache |-> d.cache]))

(* lines 12-71 *)
get_view_options(r, c, params) ==
    IF params.viewable_file = <<>>
    THEN [ret |-> Returned("list", <<"Select a viewable file first">>, <<>>), cache |-> c]
    ELSE Bind(get_viewable_files_dict(r, c, params), LAMBDA d :
            IF d.ret.exc # "none"
            THEN d
            ELSE IF params.viewable_file \notin DOMAIN d.ret.val
            THEN [ret |-> Returned("list", <<"Could not find URN for the selected file">>,
                                   d.ret.reqs),
                  cache |-> d.cache]
            ELSE manifest_options(r, d, d.ret.val[params.viewable_file].urn))

-----------------------------------------------------------------------------
(* The remote hierarchy: what the API answers.  Built from a tree shape      *)
(* (each folder's parent, each item's folder), a response order, the item    *)
(* records and the HTTP status of each listing.                              *)

RECURSIVE AscSeq(_)
AscSeq(S) ==
    IF S = {} THEN <<>>
    ELSE LET m == CHOOSE x \in S : \A y \in S : x <= y
         IN  <<m>> \o AscSeq(S \ {m})

Reverse(s) == [i \in 1..Len(s) |-> s[Len(s) + 1 - i]]

Ordered(S, rev) == IF rev THEN Reverse(AscSeq(S)) ELSE AscSeq(S)

Urn(item, version) == <<"urn", item, version>>

NameRvt == <<"a", ".", "r", "v", "t">>
NameDwgUpper == <<"b", ".", "D", "W", "G">>
NameTxt == <<"a", ".", "t", "x", "t">>
FolderName == <<"d", "i", "r">>

(* an item record: its display name (or no attributes) and the answer to its  *)
(* versions request                                                         *)
ItemKind(kind, item) ==
    [hasAttributes |-> kind # "noattr",
     displayName |-> CASE kind = "upper" -> NameDwgUpper
                       [] kind = "txt" -> NameTxt
                       [] OTHER -> NameRvt,
     versionsStatus |-> IF kind = "verr" THEN "err" ELSE "ok",
     versions |-> CASE kind = "empty" -> <<>>
                    [] kind = "malformed" -> << [type |-> "versions"] >>
                    [] OTHER -> << [id |-> Urn(item, 2)], [id |-> Urn(item, 1)] >>]

FolderEntry(f) ==
    [type |-> "folders", id |-> f, hasAttributes |-> TRUE, displayName |-> FolderName]

ItemEntry(i, item) ==
    [type |-> "items", id |-> i, hasAttributes |-> item.hasAttributes,
     displayName |-> item.displayName]

NameModel == <<"M", "o", "d", "e", "l">>
NameView == <<"V">>
NameSheet == <<"S", "h", "e", "e", "t", ":", "A">>
NameSheetNoColon == <<"S", "h", "e", "e", "t">>
NameSheetLower == <<"s", "h", "e", "e", "t", ":", "a">>

GeometryModel ==
    [type |-> "geometry", role |-> "3d", name |-> NameModel,
     children |-> << [type |-> "view", guid |-> "G1", name |-> NameView] >>]

GeometrySheet ==
    [type |-> "geometry", role |-> "2d", name |-> NameModel,
     children |-> << [type |-> "view", guid |-> "G2", name |-> NameSheet] >>]

DefaultManifest ==
    [status |-> "success",
     derivatives |-> << [outputType |-> "svf2",
                         children |-> <<GeometryModel, GeometrySheet>>] >>]

(* parent of a folder: -p for a top folder of project p, f for a subfolder of  *)
(* f; folder 1 is a top folder of project 1                                  *)
FolderParents ==
    {fp \in [FolderIds -> {-p : p \in ProjectIds} \cup FolderIds] :
        fp[1] = -1 /\ \A f \in FolderIds : fp[f] < f}

RECURSIVE ProjectOfFolder(_, _)
ProjectOfFolder(fp, f) == IF fp[f] < 0 THEN -fp[f] ELSE ProjectOfFolder(fp, fp[f])

HubNames == <<"A", "B">>

BuildRemote(projHub, fp, ip, rev, items, names, hubsSt, projSt, topSt, folderSt) ==
    [hubsStatus |-> hubsSt,
     hubs |-> [k \in 1..Len(Ordered(HubIds, rev)) |->
                  [id |-> Ordered(HubIds, rev)[k], name |-> names[Ordered(HubIds, rev)[k]]]],
     projectsStatus |-> projSt,
     projects |-> [h \in HubIds |-> Ordered({p \in ProjectIds : projHub[p] = h}, rev)],
     topStatus |-> topSt,
     topFolders |-> [p \in ProjectIds |-> Ordered({f \in FolderIds : fp[f] = -p}, rev)],
     folderStatus |-> folderSt,
     folderProject |-> [f \in FolderIds |-> ProjectOfFolder(fp, f)],
     contents |-> [f \in FolderIds |->
        LET subs == Ordered({g \in FolderIds : fp[g] = f}, rev)
            its == Ordered({i \in ItemIds : ip[i] = f}, rev)
            fs == [k \in 1..Len(subs) |-> FolderEntry(subs[k])]
            is == [k \in 1..Len(its) |-> ItemEntry(its[k], items[its[k]])]
        IN  IF rev THEN is \o fs ELSE fs \o is],
     versionsStatus |-> [i \in ItemIds |-> items[i].versionsStatus],
     versions |-> [i \in ItemIds |-> items[i].versions],
     manifestStatus |-> "ok",
     manifest |-> DefaultManifest]

AllOk(S) == [x \in S |-> "ok"]
OneErr(S, e) == [x \in S |-> IF x = e THEN "err" ELSE "ok"]

(* What goes wrong in one hierarchy: one listing above the folders fails, or  *)
(* some folders' listings fail while item 1 is well-formed or has a malformed *)
(* version record, or item 1 is of another kind.  The other items are CAD     *)
(* files named like a well-formed item 1.                                    *)
NoFault == [hubs |-> "ok", projects |-> AllOk(HubIds), top |-> AllOk(ProjectIds),
            folders |-> AllOk(FolderIds), kind |-> "cad"]

Faults ==
    {[NoFault EXCEPT !.hubs = "err"]}
    \cup {[NoFault EXCEPT !.projects = OneErr(HubIds, h)] : h \in HubIds}
    \cup {[NoFault EXCEPT !.top = OneErr(ProjectIds, p)] : p \in ProjectIds}
    \cup {[NoFault EXCEPT !.folders = fs, !.kind = k] :
             fs \in [FolderIds -> {"ok", "err"}], k \in {"cad", "malformed"}}
    \cup {[NoFault EXCEPT !.kind = k] :
             k \in {"upper", "txt", "empty", "verr", "noattr"}}

Remotes ==
    {BuildRemote(projHub, fp, ip, rev,
                 [i \in ItemIds |-> ItemKind(IF i = 1 THEN ft.kind ELSE "cad", i)],
                 [h \in HubIds |-> HubNames[h]],
                 ft.hubs, ft.projects, ft.top, ft.folders) :
        projHub \in {ph \in [ProjectIds -> HubIds] : ph[1] = 1},
        fp \in FolderParents,
        ip \in [ItemIds -> FolderIds],
        rev \in BOOLEAN,
        ft \in Faults}

(* Display names that probe the extension filter: every extension of the     *)
(* allow-list in lower, upper and mixed case after a stem, the bare          *)
(* extension, and near misses.                                              *)
LowerToUpper ==
    [c \in {AsciiLower[i] : i \in 1..Len(AsciiLower)} |->
        AsciiUpper[CHOOSE i \in 1..Len(AsciiLower) : AsciiLower[i] = c]]

UpperCase(s) == [i \in 1..Len(s) |-> IF s[i] \in DOMAIN LowerToUpper THEN LowerToUpper[s[i]] ELSE s[i]]

MixedCase(s) == [i \in 1..Len(s) |-> IF i = 2 THEN UpperCase(s)[i] ELSE s[i]]

ProbeNames ==
    UNION {{<<"a">> \o supported_extensions[k],
            <<"a">> \o UpperCase(supported_extensions[k]),
            <<"a">> \o MixedCase(supported_extensions[k]),
            supported_extensions[k],
            Tail(supported_extensions[k]),
            <<"a">> \o supported_extensions[k] \o <<"x">>,
            supported_extensions[k] \o <<".", "b", "a", "k">>} :
           k \in 1..Len(supported_extensions)}
    \cup {<<>>, <<"a">>, NameTxt}

ChainParents == [f \in FolderIds |-> IF f = 1 THEN -1 ELSE f - 1]

ProbeRemotes ==
    {BuildRemote([p \in ProjectIds |-> 1], ChainParents, [i \in ItemIds |-> MaxFolders], rev,
                 [i \in ItemIds |->
                     IF i = 1
                     THEN [ItemKind(k, 1) EXCEPT !.displayName = n]
                     ELSE ItemKind("cad", i)],
                 [h \in HubIds |-> HubNames[h]],
                 "ok", AllOk(HubIds), AllOk(ProjectIds), AllOk(FolderIds)) :
        rev \in BOOLEAN, n \in ProbeNames, k \in {"cad", "empty"}}

NoParams == [hubs |-> "", viewable_file |-> <<>>]

Call(fn, hub_id, folder, params, ret) ==
    [fn |-> fn, hub_id |-> hub_id, folder |-> folder, params |-> params, ret |-> ret]

NoCall == Call("none", NoneId, NoneId, NoParams, Returned("dict", EmptyDict, <<>>))

Init ==
    /\ remote \in Remotes \cup ProbeRemotes
    /\ cache = <<>>
    /\ result = NoCall

(* a direct call of get_all_cad_file_from_hub(token, hub_id) *)
CallHub ==
    /\ \E hub_id \in {NoneId} \cup HubIds :
          result' = Call("get_all_cad_file_from_hub", hub_id, NoneId, NoParams,
                         get_all_cad_file_from_hub(remote, hub_id))
    /\ UNCHANGED <<remote, cache>>

(* a direct call of get_all_cad_from_folder(project_id, folder_id, token) *)
CallFolder ==
    /\ \E f \in FolderIds :
          result' = Call("get_all_cad_from_folder", NoneId, f, NoParams,
                         get_all_cad_from_folder(remote, remote.folderProject[f], f))
    /\ UNCHANGED <<remote, cache>>

Next == CallHub \/ CallFolder

Spec == Init /\ [][Next]_vars

-----------------------------------------------------------------------------
(* One user session of the application: the option providers and the          *)
(* memoized catalog are called with the current params while the remote data  *)
(* may change.                                                               *)

(* params: the selected hub name ("" when none) and the selected file name    *)
AppParams ==
    {[hubs |-> h, viewable_file |-> v] : h \in {"", "A", "C"}, v \in {<<>>, NameRvt}}

(* folder 1 in project 1 of hub 1, the other folders in project 2 of hub 2,   *)
(* item 1 in folder 1 and the other items in the last folder                 *)
AppParents == [f \in FolderIds |-> IF f = 1 THEN -1 ELSE -2]
AppItemFolders == [i \in ItemIds |-> IF i = 1 THEN 1 ELSE MaxFolders]

AppFaults ==
    {ft \in Faults : ft.kind \in {"cad", "empty"} /\ ft.folders[MaxFolders] = "ok"}

(* the hierarchy without faults *)
BaseRemote ==
    BuildRemote([p \in ProjectIds |-> p], AppParents, AppItemFolders, FALSE,
                [i \in ItemIds |-> ItemKind("cad", i)],
                [h \in HubIds |-> HubNames[h]],
                "ok", AllOk(HubIds), AllOk(ProjectIds), AllOk(FolderIds))

(* the hierarchy with one of the faults, and the account without hubs *)
AppRemotes ==
    {BuildRemote([p \in ProjectIds |-> p], AppParents, AppItemFolders, FALSE,
                 [i \in ItemIds |-> ItemKind(IF i = 1 THEN ft.kind ELSE "cad", i)],
                 [h \in HubIds |-> HubNames[h]],
                 ft.hubs, ft.projects, ft.top, ft.folders) : ft \in AppFaults}
    \cup {[BaseRemote EXCEPT !.hubs = <<>>]}

InitApp ==
    /\ remote \in AppRemotes
    /\ cache = <<>>
    /\ result = NoCall

(* the memo store holds room for the entry a call may add *)
CacheRoom(params) == memo_hit(cache, params) \/ Len(cache) < MaxCache

CallFilesDict ==
    \E params \in AppParams :
        /\ CacheRoom(params)
        /\ LET d == get_viewable_files_dict(remote, cache, params)
           IN  /\ result' = Call("get_viewable_files_dict", NoneId, NoneId, params, d.ret)
               /\ cache' = d.cache
        /\ UNCHANGED remote

CallHubList ==
    /\ result' = Call("get_hub_list", NoneId, NoneId, NoParams, get_hub_list(remote))
    /\ UNCHANGED <<remote, cache>>

CallFilesNames ==
    \E params \in AppParams :
        /\ CacheRoom(params)
        /\ LET d == get_viewable_files_names(remote, cache, params)
           IN  /\ result' = Call("get_viewable_files_names", NoneId, NoneId, params, d.ret)
               /\ cache' = d.cache
        /\ UNCHANGED remote

CallViewOptions ==
    \E params \in AppParams :
        /\ CacheRoom(params)
        /\ LET d == get_view_options(remote, cache, params)
           IN  /\ result' = Call("get_view_options", NoneId, NoneId, params, d.ret)
               /\ cache' = d.cache
        /\ UNCHANGED remote

(* the remote data changes: a new version of item 1 is uploaded *)
RemoteChange ==
    /\ remote.versions[1] # <<>>
    /\ remote.versions[1][1] # [id |-> Urn(1, 3)]
    /\ remote' = [remote EXCEPT !.versions[1] = <<[id |-> Urn(1, 3)]>> \o @]
    /\ UNCHANGED <<cache, result>>

NextApp ==
    \/ CallFilesDict
    \/ CallHubList
    \/ CallFilesNames
    \/ CallViewOptions
    \/ CallHub
    \/ CallFolder
    \/ RemoteChange

SpecApp == InitApp /\ [][NextApp]_vars

-----------------------------------------------------------------------------
(* The view options over a family of manifest documents *)

MaxChildren == 2

ChildNodes ==
    { [type |-> "view", guid |-> "G1", name |-> NameSheet],
      [type |-> "view", guid |-> "G1", name |-> NameView],
      [type |-> "view", guid |-> "G1", name |-> NameSheetNoColon],
      [type |-> "view", guid |-> "G1", name |-> NameSheetLower],
      [type |-> "view", guid |-> "G1"],
      [type |-> "view", name |-> NameSheet],
      [type |-> "resource", guid |-> "G9", name |-> NameSheet] }

ChildSeqs == UNION {[1..n -> ChildNodes] : n \in 0..MaxChildren}

GeometryShapes ==
    { [type |-> "geometry", role |-> "3d", name |-> NameModel],
      [type |-> "geometry", role |-> "2d", name |-> NameModel],
      [type |-> "geometry", role |-> "2d"],
      [type |-> "geometry", role |-> "3d", name |-> <<>>],
      [type |-> "geometry", role |-> "thumbnail", name |-> NameModel],
      [type |-> "resource", role |-> "3d", name |-> NameModel] }

WithChildren(g, cs) ==
    IF "name" \in DOMAIN g
    THEN [type |-> g.type, role |-> g.role, name |-> g.name, children |-> cs]
    ELSE [type |-> g.type, role |-> g.role, children |-> cs]

GeometryNodes == GeometryShapes \cup {WithChildren(g, cs) : g \in GeometryShapes, cs \in ChildSeqs}

Derivative(ot, nodes) == [outputType |-> ot, children |-> nodes]

ManifestDocs ==
    {[status |-> "success", derivatives |-> <<Derivative(ot, <<g>>)>>] :
        ot \in {"svf", "obj"}, g \in GeometryNodes}
    \cup {[status |-> "success", derivatives |-> <<Derivative("svf2", <<GeometryModel, g>>)>>] :
             g \in GeometryNodes}
    \cup {[status |-> "success",
           derivatives |-> <<Derivative("svf2", <<g>>), Derivative("svf", <<GeometrySheet>>)>>] :
             g \in GeometryNodes}
    \cup {[status |-> "success"],
          [status |-> "success", derivatives |-> <<>>],
          [status |-> "success", derivatives |-> << [outputType |-> "svf"] >>],
          [status |-> "success", derivatives |-> << [children |-> <<GeometryModel>>] >>]}

InitManifest ==
    /\ \E doc \in ManifestDocs, st \in {"ok", "err"} :
          /\ st = "err" => doc = [status |-> "success"]
          /\ remote = [BaseRemote EXCEPT !.manifest = doc, !.manifestStatus = st]
    /\ cache = <<>>
    /\ result = NoCall

NextManifest == CallViewOptions

SpecManifest == InitManifest /\ [][NextManifest]_vars

-----------------------------------------------------------------------------
(* Vocabulary of the properties *)

Range(s) == {s[i] : i \in DOMAIN s}

RECURSIVE Flatten(_)
Flatten(ss) == IF ss = <<>> THEN <<>> ELSE Head(ss) \o Flatten(Tail(ss))

IsHubCall == result.fn = "get_all_cad_file_from_hub"
IsFolderCall == result.fn = "get_all_cad_from_folder"

(* the hierarchy without folder F and everything below it *)
RemoveSubtree(r, F) ==
    [r EXCEPT
        !.topFolders = [p \in ProjectIds |-> SelectSeq(r.topFolders[p], LAMBDA f : f # F)],
        !.contents = [g \in FolderIds |->
            IF g = F THEN <<>>
            ELSE SelectSeq(r.contents[g], LAMBDA e : ~(e.type = "folders" /\ e.id = F))]]

(* depth-first, pre-order list of the item records under a folder, a project, *)
(* a hub, all hubs, in the order of the API responses; a folder whose listing *)
(* fails and an entry without attributes contribute nothing                 *)
RECURSIVE VisitFolder(_, _)
VisitFolder(r, f) ==
    IF r.folderStatus[f] # "ok" THEN <<>>
    ELSE Flatten([k \in 1..Len(r.contents[f]) |->
            LET e == r.contents[f][k]
            IN  IF ~e.hasAttributes THEN <<>>
                ELSE IF e.type = "folders" THEN VisitFolder(r, e.id)
                ELSE <<e>>])

VisitProject(r, p) ==
    Flatten([k \in 1..Len(r.topFolders[p]) |-> VisitFolder(r, r.topFolders[p][k])])

VisitHub(r, h) ==
    Flatten([k \in 1..Len(r.projects[h]) |-> VisitProject(r, r.projects[h][k])])

VisitAll(r, hub_id) ==
    IF hub_id # NoneId THEN VisitHub(r, hub_id)
    ELSE Flatten([k \in 1..Len(r.hubs) |-> VisitHub(r, r.hubs[k].id)])

(* the items the last call visited *)
Visited ==
    IF IsHubCall THEN VisitAll(remote, result.hub_id)
    ELSE IF IsFolderCall THEN VisitFolder(remote, result.folder)
    ELSE <<>>

ClaimExtensions ==
    { <<".","r","v","t">>, <<".","d","w","g">>, <<".","i","f","c">>,
      <<".","s","t","e","p">>, <<".","s","t","p">>, <<".","i","a","m">>,
      <<".","i","p","t">> }

SameLetter(c, d) ==
    c = d \/ \E i \in 1..Len(AsciiUpper) : {c, d} = {AsciiUpper[i], AsciiLower[i]}

EndsWithIgnoreCase(name, ext) ==
    /\ Len(ext) <= Len(name)
    /\ \A k \in 1..Len(ext) : SameLetter(name[Len(name) - Len(ext) + k], ext[k])

IsCadName(name) == \E ext \in ClaimExtensions : EndsWithIgnoreCase(name, ext)

HasVersions(e) ==
    remote.versionsStatus[e.id] = "ok" /\ remote.versions[e.id] # <<>>

(* a CAD item whose latest version resolves to a urn *)
Resolvable(e) ==
    /\ IsCadName(e.displayName)
    /\ HasVersions(e)
    /\ "id" \in DOMAIN remote.versions[e.id][1]

LatestUrn(e) == remote.versions[e.id][1].id

-----------------------------------------------------------------------------
(* C1: for every folder F whose contents listing fails with an HTTP error,    *)
(* the outcome of get_all_cad_file_from_hub equals its outcome on the         *)
(* hierarchy with F's whole subtree removed.                                 *)
C1_PartialFailureIsolation ==
    IsHubCall =>
        \A F \in FolderIds :
            remote.folderStatus[F] = "err" =>
                LET pruned == get_all_cad_file_from_hub(RemoveSubtree(remote, F),
                                                        result.hub_id)
                IN  /\ pruned.exc = result.ret.exc
                    /\ pruned.kind = result.ret.kind
                    /\ pruned.val = result.ret.val

(* a walk that asked for the contents of a failing, non-empty folder and      *)
(* still returned a non-empty catalog                                        *)
C1_Witness ==
    /\ IsHubCall
    /\ result.ret.exc = "none"
    /\ DOMAIN result.ret.val # {}
    /\ \E F \in FolderIds :
          /\ remote.folderStatus[F] = "err"
          /\ remote.contents[F] # <<>>
          /\ Req("contents", F) \in Range(result.ret.reqs)

(* an item entry whose processing fails *)
EntryFails(e) ==
    /\ e.type = "items"
    /\ \/ ~e.hasAttributes
       \/ /\ IsCadName(e.displayName)
          /\ \/ remote.versionsStatus[e.id] = "err"
             \/ /\ remote.versions[e.id] # <<>>
                /\ "id" \notin DOMAIN remote.versions[e.id][1]

(* C2: when processing one entry of a folder fails (item-versions request     *)
(* failed, content record without attributes, malformed version record),     *)
(* get_all_cad_from_folder still returns a catalog, the entry contributes     *)
(* nothing, and every later sibling entry is still processed.                *)
C2_PerItemIsolation ==
    (IsFolderCall /\ remote.folderStatus[result.folder] = "ok") =>
        LET data == remote.contents[result.folder]
        IN  \A k \in 1..Len(data) :
                EntryFails(data[k]) =>
                    /\ result.ret.exc = "none"
                    /\ result.ret.kind = "dict"
                    /\ (\A e \in Range(Visited) :
                           (e.hasAttributes /\ e.displayName = data[k].displayName)
                               => e.id = data[k].id)
                       => (data[k].hasAttributes
                               => data[k].displayName \notin DOMAIN result.ret.val)
                    /\ \A j \in (k + 1)..Len(data) :
                           (data[j].type = "items" /\ data[j].hasAttributes
                               /\ Resolvable(data[j]))
                           => /\ data[j].displayName \in DOMAIN result.ret.val
                              /\ Req("versions", data[j].id) \in Range(result.ret.reqs)

(* C3: a non-2xx response aborts get_all_cad_file_from_hub only when it       *)
(* answers the hub listing or a project listing; a failing top-folder,        *)
(* folder-contents or item-versions request never makes the build raise.     *)
C3_AbortOnlyOnHubOrProjectListing ==
    (IsHubCall /\ result.ret.exc = "HTTPError") =>
        result.ret.reqs[Len(result.ret.reqs)].ep \in {"hubs", "projects"}

(* C4: when several CAD items with resolvable versions share a display name,  *)
(* the returned catalog maps that name to the urn of the one visited last in  *)
(* the depth-first traversal in API response order.                          *)
C4_CollisionLastVisitedWins ==
    (IsHubCall /\ result.ret.exc = "none") =>
        LET res == SelectSeq(Visited, Resolvable)
        IN  \A k \in 1..Len(res) :
                LET last == CHOOSE j \in 1..Len(res) :
                                /\ res[j].displayName = res[k].displayName
                                /\ \A m \in (j + 1)..Len(res) :
                                       res[m].displayName # res[k].displayName
                IN  /\ res[k].displayName \in DOMAIN result.ret.val
                    /\ result.ret.val[res[k].displayName] = [urn |-> LatestUrn(res[last])]

(* two resolvable items of the same name were visited in different folders,   *)
(* the one with the smaller id last                                          *)
C4_Witness ==
    /\ IsHubCall
    /\ result.ret.exc = "none"
    /\ LET res == SelectSeq(Visited, Resolvable)
       IN  \E j, k \in 1..Len(res) :
              /\ j < k
              /\ res[j].displayName = res[k].displayName
              /\ res[k].id < res[j].id
              /\ \A f \in FolderIds :
                     ~({res[j], res[k]} \subseteq Range(remote.contents[f]))

(* C5: for every visited item whose versions request succeeds with a          *)
(* non-empty list, the display name is a key of the catalog iff it ends,      *)
(* case-insensitively, with an allow-listed extension; no versions request    *)
(* is issued for a non-matching item; an item with an empty version list      *)
(* contributes no entry.                                                     *)
C5_ExtensionFilter ==
    ((IsHubCall \/ IsFolderCall) /\ result.ret.exc = "none") =>
        \A e \in Range(Visited) :
            /\ HasVersions(e) =>
                  (e.displayName \in DOMAIN result.ret.val <=> IsCadName(e.displayName))
            /\ ~IsCadName(e.displayName) =>
                  Req("versions", e.id) \notin Range(result.ret.reqs)
            /\ (/\ remote.versionsStatus[e.id] = "ok"
                /\ remote.versions[e.id] = <<>>
                /\ \A o \in Range(Visited) : o.displayName = e.displayName => o.id = e.id)
               => e.displayName \notin DOMAIN result.ret.val

(* an item whose extension is not in lower case got into the catalog, next    *)
(* to a walk that skipped nothing else                                       *)
C5_Witness ==
    /\ IsHubCall \/ IsFolderCall
    /\ result.ret.exc = "none"
    /\ \E e \in Range(Visited) :
          /\ e.displayName # lower(e.displayName)
          /\ e.displayName \in DOMAIN result.ret.val

-----------------------------------------------------------------------------
(* the views the manifest holds, in document order: one per child of an       *)
(* svf/svf2 derivative that has type "geometry", role "3d" or "2d", a first    *)
(* child of type "view" with a guid, and a name (the view's when it starts    *)
(* with "Sheet:", else the container's)                                      *)
ViewsOfContainer(g) ==
    IF ~("type" \in DOMAIN g /\ g.type = "geometry"
         /\ "role" \in DOMAIN g /\ g.role \in {"3d", "2d"})
    THEN <<>>
    ELSE LET kids == IF "children" \in DOMAIN g THEN g.children ELSE <<>>
             views == SelectSeq(kids, LAMBDA c : "type" \in DOMAIN c /\ c.type = "view")
         IN  IF views = <<>> THEN <<>>
             ELSE LET v == views[1]
                      sheet == /\ "name" \in DOMAIN v
                               /\ Len(v.name) >= Len(SheetPrefix)
                               /\ \A k \in 1..Len(SheetPrefix) : v.name[k] = SheetPrefix[k]
                      hasName == sheet \/ ("name" \in DOMAIN g /\ g.name # <<>>)
                      hasGuid == "guid" \in DOMAIN v /\ v.guid # ""
                  IN  IF hasName /\ hasGuid
                      THEN << [label |-> <<IF g.role = "3d" THEN "[3D]" ELSE "[2D]",
                                           IF sheet THEN v.name ELSE g.name>>,
                               value |-> v.guid] >>
                      ELSE <<>>

ViewsOfDerivative(d) ==
    IF "outputType" \in DOMAIN d /\ d.outputType \in {"svf", "svf2"} /\ "children" \in DOMAIN d
    THEN Flatten([k \in 1..Len(d.children) |-> ViewsOfContainer(d.children[k])])
    ELSE <<>>

ExpectedViews(manifest) ==
    IF "derivatives" \in DOMAIN manifest
    THEN Flatten([k \in 1..Len(manifest.derivatives) |->
                     ViewsOfDerivative(manifest.derivatives[k])])
    ELSE <<>>

(* C6: for every manifest document, nodes without name, guid or children     *)
(* included, the view extraction of get_view_options completes and yields,    *)
(* in document order, exactly the views of the manifest.                     *)
C6_ManifestExtraction ==
    (/\ result.fn = "get_view_options"
     /\ remote.manifestStatus = "ok"
     /\ Req("manifest", NoneId) \in Range(result.ret.reqs))
    => /\ result.ret.exc = "none"
       /\ result.ret.kind = "list"
       /\ IF ExpectedViews(remote.manifest) = <<>>
          THEN result.ret.val = << [label |-> <<"No 3D or 2D views found in manifest">>,
                                    value |-> ""] >>
          ELSE result.ret.val = ExpectedViews(remote.manifest)

(* C7: every option provider returns a non-empty sequence and never raises,   *)
(* also when its backing data is empty or the request behind it fails.       *)
C7_ProvidersNeverRaise ==
    result.fn \in {"get_hub_list", "get_viewable_files_names", "get_view_options"}
    => /\ result.ret.exc = "none"
       /\ result.ret.kind = "list"
       /\ Len(result.ret.val) >= 1

(* C8: every call of get_viewable_files_dict, get_all_cad_file_from_hub and   *)
(* get_all_cad_from_folder that returns, returns a mapping; with an empty     *)
(* hub selection the catalog is the empty mapping and no request is issued.  *)
C8_CatalogNeverNone ==
    /\ (/\ result.fn \in {"get_viewable_files_dict", "get_all_cad_file_from_hub",
                          "get_all_cad_from_folder"}
        /\ result.ret.exc = "none")
       => result.ret.kind = "dict"
    /\ (result.fn = "get_viewable_files_dict" /\ result.params.hubs = "")
       => /\ result.ret.exc = "none"
          /\ result.ret.kind = "dict"
          /\ DOMAIN result.ret.val = {}
          /\ result.ret.reqs = <<>>

(* the folder walk returned for a folder whose listing fails, in a session    *)
(* that already built the catalog of the empty hub selection while the walk   *)
(* of all hubs finds files                                                   *)
C8_Witness ==
    /\ result.fn = "get_all_cad_from_folder"
    /\ remote.folderStatus[result.folder] = "err"
    /\ result.ret.exc = "none"
    /\ \E k \in 1..Len(cache) : cache[k].key.hubs = "" /\ DOMAIN cache[k].val = {}
    /\ DOMAIN get_all_cad_file_from_hub(remote, NoneId).val # {}

(* A step that leaves the remote data unchanged and ends with the outcome of  *)
(* get_viewable_files_dict is a call of it.                                  *)

ItemsInHubNamed(name) ==
    UNION {{e.id : e \in Range(VisitHub([remote EXCEPT !.folderStatus = AllOk(FolderIds)],
                                        remote.hubs[k].id))} :
           k \in {j \in 1..Len(remote.hubs) : remote.hubs[j].name = name}}

(* C10: the catalog get_viewable_files_dict returns for a non-empty selected  *)
(* hub name holds only items located in a hub of that name.                  *)
C10_HubScoping ==
    (/\ result.fn = "get_viewable_files_dict"
     /\ result.params.hubs # ""
     /\ result.ret.exc = "none")
    => \A n \in DOMAIN result.ret.val :
           result.ret.val[n].urn[2] \in ItemsInHubNamed(result.params.hubs)

====
